---- MODULE Spec2Model ----
(***************************************************************************)
(* airhauler-optimizer: AirHauler (src/airhauler.py) and the helpers of    *)
(* src/common.py it calls.  One run of main.do_work is                     *)
(*   AirHauler() ; create_data_model ; the routing solve ; print_solution  *)
(* and the three input tables (airports, aircraft, jobs) are drawn from    *)
(* small sets in Init.                                                     *)
(*                                                                         *)
(* Units.  latitude_deg / longitude_deg are held in quarter arc-minutes    *)
(* (1/240 degree), so that math.radians(x) is x * pi / 43200.  Every       *)
(* airport of the modelled tables lies on one meridian; on a meridian the  *)
(* haversine expression of common.get_distance reduces to c = |dlat|.      *)
(* Node indices are the 0-based indices of the Python lists.               *)
(***************************************************************************)
EXTENDS Integers, Sequences, FiniteSets, TLC

VARIABLES airports, aircraft, jobs, pc, err, job_i, pickups_deliveries, locations,
          data, solution, printed

vars == <<airports, aircraft, jobs, pc, err, job_i, pickups_deliveries, locations,
          data, solution, printed>>

\* ------------------------------------------------------------------ bounds
MaxJobs == 2          \* longest free-form job list
MaxQuantity == 2      \* largest cargo quantity of a job of a dense list

\* ------------------------------------------------------- program constants
Sentinel == 99999         \* airhauler.py:177
MaxTravel == 70000        \* airhauler.py:43
MaxCapacity == 500        \* airhauler.py:82
EarthRadius == 6371000    \* common.py:43
MetresPerNm == 1850       \* common.py:48

\* ------------------------------------------------------------------ inputs
\* The identifiers the job and aircraft tables are written with.
Idents == {"JFK", "KJFK", "YYZ", "CYYZ"}

Airport(id, lat) == [ident |-> id, latitude_deg |-> lat, longitude_deg |-> 0]

\* Airports.csv: a 'K' match beside a bare 3-character ident, a 'C' match.
AirportsA == <<Airport("KJFK", 0), Airport("CYYZ", 1), Airport("JFK", 40)>>
\* Both prefixes match, a repeated ident, a bare 3-character ident only.
AirportsB == <<Airport("CJFK", 0), Airport("KJFK", 8), Airport("YYZ", 80),
               Airport("KJFK", 100)>>
\* Neither JFK nor KJFK is known; YYZ is found under 'K' ahead of 'C'.
AirportsC == <<Airport("KYYZ", 20), Airport("CYYZ", 60)>>

AirportFiles == {AirportsA, AirportsB, AirportsC}

Aircraft(loc, cap, range) == [Location |-> loc, CargoCapacity |-> cap, Range |-> range]

\* Aircraft.csv: an aircraft at the limits the solve uses, and a small one.
AircraftFiles ==
    {Aircraft(loc, MaxCapacity, MaxTravel) : loc \in Idents}
        \cup {Aircraft(loc, 1, 1) : loc \in Idents}

Job(f, t, q) == [fromIcao |-> f, toIcao |-> t, quantity |-> q]

\* The rows of the free-form job lists (unit cargo).
JobRows == {Job(f, t, 1) : f \in Idents, t \in Idents}

SeqsUpTo(S, n) == UNION {[1..k -> S] : k \in 0..n}

\* Two jobs for the leg f -> t, quantities q1 then q2.
Leg(f, t, q1, q2) == <<Job(f, t, q1), Job(f, t, q2)>>

\* Jobs.xlsx with two jobs for every ordered pair of the airports s[1..Len(s)].
RECURSIVE DenseFrom(_, _, _, _)
DenseFrom(s, k, q1, q2) ==
    IF k > Len(s) * Len(s) THEN <<>>
    ELSE LET i == ((k - 1) \div Len(s)) + 1
             j == ((k - 1) % Len(s)) + 1
         IN  (IF i = j THEN <<>> ELSE Leg(s[i], s[j], q1, q2))
                 \o DenseFrom(s, k + 1, q1, q2)

InjectiveSeqs(S) ==
    {s \in UNION {[1..k -> S] : k \in 2..Cardinality(S)} :
        \A i, j \in DOMAIN s : i # j => s[i] # s[j]}

DenseJobLists ==
    {DenseFrom(s, 1, q1, q2) :
        s \in InjectiveSeqs(Idents), q1 \in 1..MaxQuantity, q2 \in 1..MaxQuantity}

JobFiles == SeqsUpTo(JobRows, MaxJobs) \cup DenseJobLists

\* ------------------------------------------------------------- common.py
Abs(x) == IF x < 0 THEN -x ELSE x

\* Python 3 round() of the non-negative rational n / d: ties go to even.
round(n, d) ==
    LET q == n \div d
        r == n % d
    IN  IF 2 * r < d THEN q
        ELSE IF 2 * r > d THEN q + 1
        ELSE IF q % 2 = 0 THEN q ELSE q + 1

\* common.get_distance with dlat taken from the wrong operand.
common_get_distance_lat2(lat1, lon1, lat2, lon2) ==
    LET dlon == lon2 - lon1
        dlat == lat2 - lon1
    IN  CASE dlon = 0 ->
             round(Abs(dlat) * (EarthRadius \div 1000) * 355,
                   113 * ((43200 * MetresPerNm) \div 1000))

\* common.get_distance on coordinates in quarter arc-minutes.  With dlon = 0,
\* a = sin(dlat/2)^2 and c = 2*atan2(sqrt(a), sqrt(1-a)) = |dlat| (radians), so
\* r*c/1850 = |dlat| * r * pi / (43200 * 1850), pi taken as 355/113; a factor
\* 1000 is cancelled to stay inside 32-bit integers.
common_get_distance(lat1, lon1, lat2, lon2) ==
    LET dlon == lon2 - lon1
        dlat == lat2 - lat1
    IN  CASE dlon = 0 ->
             round(Abs(dlat) * (EarthRadius \div 1000) * 355,
                   113 * ((43200 * MetresPerNm) \div 1000))

\* ----------------------------------------------------------- airhauler.py
\* self.airports[self.airports.ident == icao]
rows(icao) == SelectSeq(airports, LAMBDA a : a.ident = icao)

\* get_distance, lines 158-164 and 166-172: the prefix attempt on one endpoint.
prefixed(icao) ==
    IF Len(icao) = 3
    THEN IF Len(rows("K" \o icao)) > 0 THEN "K" \o icao
         ELSE IF Len(rows("C" \o icao)) > 0 THEN "C" \o icao
         ELSE icao
    ELSE icao

\* get_distance whose sentinel test looks at the origin only; a destination
\* without a row is then read as latitude 0.
get_distance_from_only(from_icao, to_icao) ==
    LET f == prefixed(from_icao)
        t == prefixed(to_icao)
    IN  IF Len(rows(f)) = 0
        THEN Sentinel
        ELSE common_get_distance(rows(f)[1].latitude_deg, rows(f)[1].longitude_deg,
                                 IF Len(rows(t)) = 0 THEN 0 ELSE rows(t)[1].latitude_deg,
                                 IF Len(rows(t)) = 0 THEN 0 ELSE rows(t)[1].longitude_deg)

get_distance(from_icao, to_icao) ==
    LET f == prefixed(from_icao)
        t == prefixed(to_icao)
    IN  IF Len(rows(f)) = 0 \/ Len(rows(t)) = 0
        THEN Sentinel
        ELSE common_get_distance(rows(f)[1].latitude_deg, rows(f)[1].longitude_deg,
                                 rows(t)[1].latitude_deg, rows(t)[1].longitude_deg)

\* x in list
Contains(s, x) == \E i \in DOMAIN s : s[i] = x

\* list.index(x), 0-based; only used where x is in the list.
index(s, x) == (CHOOSE i \in DOMAIN s : s[i] = x /\ \A j \in 1..(i - 1) : s[j] # x) - 1

\* The loop body appending the origin before the destination.
scan_job_origin_first(st, job, aircraft_icao) ==
    LET l1 == IF Contains(st.locations, job.fromIcao)
              THEN st.locations ELSE Append(st.locations, job.fromIcao)
        l2 == IF Contains(l1, job.toIcao) THEN l1 ELSE Append(l1, job.toIcao)
        pd == IF job.fromIcao # aircraft_icao /\ job.toIcao # aircraft_icao
              THEN Append(st.pickups_deliveries,
                          <<index(l2, job.fromIcao), index(l2, job.toIcao)>>)
              ELSE st.pickups_deliveries
    IN  [locations |-> l2, pickups_deliveries |-> pd]

\* The loop body pairing a job as soon as one endpoint differs from the base.
scan_job_either(st, job, aircraft_icao) ==
    LET l1 == IF Contains(st.locations, job.toIcao)
              THEN st.locations ELSE Append(st.locations, job.toIcao)
        l2 == IF Contains(l1, job.fromIcao) THEN l1 ELSE Append(l1, job.fromIcao)
        pd == IF job.fromIcao # aircraft_icao \/ job.toIcao # aircraft_icao
              THEN Append(st.pickups_deliveries,
                          <<index(l2, job.fromIcao), index(l2, job.toIcao)>>)
              ELSE st.pickups_deliveries
    IN  [locations |-> l2, pickups_deliveries |-> pd]

\* create_data_model, lines 131-141: the loop body for one job.
scan_job(st, job, aircraft_icao) ==
    LET l1 == IF Contains(st.locations, job.toIcao)
              THEN st.locations ELSE Append(st.locations, job.toIcao)
        l2 == IF Contains(l1, job.fromIcao) THEN l1 ELSE Append(l1, job.fromIcao)
        pd == IF job.fromIcao # aircraft_icao /\ job.toIcao # aircraft_icao
              THEN Append(st.pickups_deliveries,
                          <<index(l2, job.fromIcao), index(l2, job.toIcao)>>)
              ELSE st.pickups_deliveries
    IN  [locations |-> l2, pickups_deliveries |-> pd]

\* create_data_model, lines 143-149.
distance_matrix(locs) ==
    [i \in 1..Len(locs) |-> [j \in 1..Len(locs) |-> get_distance(locs[i], locs[j])]]

\* create_data_model, lines 131-141: one turn of the loop over
\* self.jobs.iterrows(); job_i counts the jobs already scanned.
scan_next_job ==
    /\ pc = "create_data_model"
    /\ job_i < Len(jobs)
    /\ LET st == scan_job([locations |-> locations,
                           pickups_deliveries |-> pickups_deliveries],
                          jobs[job_i + 1], aircraft.Location)
       IN  /\ locations' = st.locations
           /\ pickups_deliveries' = st.pickups_deliveries
    /\ job_i' = job_i + 1
    /\ UNCHANGED <<airports, aircraft, jobs, pc, err, data, solution, printed>>

\* create_data_model, lines 143-155, once the loop has ended.
\* self.locations.index(aircraft_icao) of line 154 raises ValueError when the
\* home base is the endpoint of no job.
create_data_model ==
    /\ pc = "create_data_model"
    /\ job_i = Len(jobs)
    /\ IF Contains(locations, aircraft.Location)
       THEN /\ data' = [pickups_deliveries |-> pickups_deliveries,
                        distance_matrix |-> distance_matrix(locations),
                        num_planes |-> 1,
                        base |-> index(locations, aircraft.Location)]
            /\ pc' = "solve"
            /\ err' = err
       ELSE /\ data' = data
            /\ pc' = "raised"
            /\ err' = "ValueError"
    /\ UNCHANGED <<airports, aircraft, jobs, job_i, pickups_deliveries, locations,
                   solution, printed>>

\* distance_callback, lines 26-31, on node indices.
distance_callback(from_node, to_node) ==
    data.distance_matrix[from_node + 1][to_node + 1]

\* demand_callback, lines 73-74: the matching job rows.
df(from_node, to_node) ==
    SelectSeq(jobs, LAMBDA job : job.fromIcao = locations[from_node + 1]
                                 /\ job.toIcao = locations[to_node + 1])

\* demand_callback, line 76: .iloc[1] is the second matching row and raises
\* IndexError when fewer than two rows match.
demand_raises(from_node, to_node) ==
    from_node # to_node /\ Len(df(from_node, to_node)) < 2

\* demand_callback, lines 61-76, where it returns.
demand_callback(from_node, to_node) ==
    IF from_node = to_node THEN 0
    ELSE df(from_node, to_node)[2].quantity

Nodes == 0..(Len(data.distance_matrix) - 1)

\* The routes of the single vehicle: from the base through every other node
\* once (no node is optional: no disjunction is added) and back to the base.
Routes ==
    {r \in [1..(Cardinality(Nodes) + 1) -> Nodes] :
        /\ r[1] = data.base
        /\ r[Len(r)] = data.base
        /\ \A n \in Nodes \ {data.base} : \E i \in 2..(Len(r) - 1) : r[i] = n
        /\ \A i \in 2..(Len(r) - 1) : r[i] # data.base}

\* CumulVar of the 'Distance' dimension at the i-th stop of r: starts at zero,
\* no slack (lines 40-45).
RECURSIVE distance_cumul(_, _)
distance_cumul(r, i) ==
    IF i = 1 THEN 0 ELSE distance_cumul(r, i - 1) + distance_callback(r[i - 1], r[i])

\* CumulVar of the 'Capacity' dimension at the i-th stop of r: starts at zero,
\* no slack (lines 79-84).
RECURSIVE capacity_cumul(_, _)
capacity_cumul(r, i) ==
    IF i = 1 THEN 0 ELSE capacity_cumul(r, i - 1) + demand_callback(r[i - 1], r[i])

\* Position of a node on a route (its first visit).
Pos(r, n) == index(r, n) + 1

\* The constraints calculate_jobs registers, lines 38-84, on one route.
Feasible(r) ==
    /\ \A i \in 1..(Len(r) - 1) : ~demand_raises(r[i], r[i + 1])
    /\ \A i \in 1..Len(r) :
          /\ distance_cumul(r, i) >= 0
          /\ distance_cumul(r, i) <= MaxTravel
          /\ capacity_cumul(r, i) >= 0
          /\ capacity_cumul(r, i) <= MaxCapacity
    /\ \A k \in DOMAIN data.pickups_deliveries :
          LET request == data.pickups_deliveries[k]
          IN  distance_cumul(r, Pos(r, request[1]))
                  <= distance_cumul(r, Pos(r, request[2]))

\* routing.SolveWithParameters returns an assignment: line 92, then line 95.
SolveFound ==
    /\ pc = "solve"
    /\ \E r \in Routes :
          /\ Feasible(r)
          /\ solution' = r
    /\ pc' = "print_solution"
    /\ UNCHANGED <<airports, aircraft, jobs, err, job_i, pickups_deliveries, locations,
                   data, printed>>

\* The solver evaluates demand_callback on an arc for which it raises.
SolveRaises ==
    /\ pc = "solve"
    /\ \E i, j \in Nodes : demand_raises(i, j)
    /\ pc' = "raised"
    /\ err' = "IndexError"
    /\ UNCHANGED <<airports, aircraft, jobs, job_i, pickups_deliveries, locations, data,
                   solution, printed>>

\* The solver returns no assignment: `if solution:` of line 94 is false.
SolveNone ==
    /\ pc = "solve"
    /\ pc' = "done"
    /\ UNCHANGED <<airports, aircraft, jobs, err, job_i, pickups_deliveries, locations,
                   data, solution, printed>>

\* print_solution, lines 106-113: the walk from routing.Start to the end.
RECURSIVE walk(_, _)
walk(r, i) ==
    IF i = 0 THEN [plan_output |-> <<>>, route_distance |-> 0, route_load |-> 0]
    ELSE LET w == walk(r, i - 1)
             route_load == w.route_load + data["demands"][r[i] + 1]
         IN  [plan_output |-> Append(w.plan_output, <<locations[r[i] + 1], route_load>>),
              route_distance |-> w.route_distance + distance_callback(r[i], r[i + 1]),
              route_load |-> route_load]

\* print_solution, lines 97-122, for the one vehicle.  data['demands'] of line
\* 108 raises KeyError when create_data_model stored no such key.
print_solution ==
    /\ pc = "print_solution"
    /\ IF "demands" \in DOMAIN data
       THEN LET w == walk(solution, Len(solution) - 1)
            IN  /\ printed' =
                      [plan_output |-> Append(w.plan_output,
                           <<locations[solution[Len(solution)] + 1], w.route_load>>),
                       route_distance |-> w.route_distance,
                       route_load |-> w.route_load,
                       total_distance |-> 0 + w.route_distance,
                       total_load |-> 0 + w.route_load]
                /\ pc' = "done"
                /\ err' = err
       ELSE /\ printed' = printed
            /\ pc' = "raised"
            /\ err' = "KeyError"
    /\ UNCHANGED <<airports, aircraft, jobs, job_i, pickups_deliveries, locations, data,
                   solution>>

\* AirHauler.__init__, lines 9-12: the three tables are loaded; then
\* create_data_model, lines 126-130, has emptied its two lists.
Init ==
    /\ airports \in AirportFiles
    /\ aircraft \in AircraftFiles
    /\ jobs \in JobFiles
    /\ pc = "create_data_model"
    /\ err = ""
    /\ job_i = 0
    /\ pickups_deliveries = <<>>
    /\ locations = <<>>
    /\ data = <<>>
    /\ solution = <<>>
    /\ printed = <<>>

Next ==
    \/ scan_next_job
    \/ create_data_model
    \/ SolveFound
    \/ SolveRaises
    \/ SolveNone
    \/ print_solution

Spec == Init /\ [][Next]_vars

\* ================================================================ claims
\* create_data_model has returned its data.
Built == pc # "create_data_model" /\ err # "ValueError"

\* The solve has returned an assignment.
Solved == solution # <<>>

\* The idents of the airport table.
KnownIdents == {airports[i].ident : i \in DOMAIN airports}

\* An identifier no lookup of get_distance finds: neither prefix nor, for any
\* length, the identifier as given.
Unresolved(icao) ==
    /\ icao \notin KnownIdents
    /\ Len(icao) = 3 => ("K" \o icao) \notin KnownIdents /\ ("C" \o icao) \notin KnownIdents

\* Unresolved as C5 words it: a 3-character identifier by the prefixes alone.
UnresolvedByPrefixOnly(icao) ==
    IF Len(icao) = 3
    THEN ("K" \o icao) \notin KnownIdents /\ ("C" \o icao) \notin KnownIdents
    ELSE icao \notin KnownIdents

NodePos == DOMAIN locations

\* C1: every route meeting the registered pickup-delivery constraints has, for
\* each pickup-delivery pair, both nodes on it and the pickup at a strictly
\* smaller position than the delivery.
C1_PickupPrecedesDelivery ==
    Solved =>
        \A k \in DOMAIN data.pickups_deliveries :
            LET request == data.pickups_deliveries[k]
            IN  /\ Contains(solution, request[1])
                /\ Contains(solution, request[2])
                /\ Pos(solution, request[1]) < Pos(solution, request[2])

\* C2: the cumulative distance at the last stop of a produced route is at most
\* the Range of the aircraft record.
C2_DistanceWithinRange ==
    Solved => distance_cumul(solution, Len(solution)) <= aircraft.Range

\* C3: the cumulative load at every stop of a produced route lies in
\* [0, CargoCapacity] of the aircraft record.
C3_LoadWithinCapacity ==
    Solved =>
        \A i \in DOMAIN solution :
            /\ capacity_cumul(solution, i) >= 0
            /\ capacity_cumul(solution, i) <= aircraft.CargoCapacity

\* C4 as stated: the distance matrix is symmetric and its whole diagonal is zero.
C4_SymmetricZeroDiagonal ==
    Built =>
        \A i, j \in NodePos :
            /\ data.distance_matrix[i][j] = data.distance_matrix[j][i]
            /\ data.distance_matrix[i][i] = 0

\* C4 amended: the distance matrix is symmetric, and its diagonal is zero at
\* every node whose identifier resolves to an airport.
C4_SymmetricResolvedDiagonal ==
    Built =>
        \A i, j \in NodePos :
            /\ data.distance_matrix[i][j] = data.distance_matrix[j][i]
            /\ ~Unresolved(locations[i]) => data.distance_matrix[i][i] = 0

\* C4 witness: two resolved nodes a positive distance apart, beside an
\* unresolved one.
C4_Witness ==
    /\ Built
    /\ \E k \in NodePos : Unresolved(locations[k])
    /\ \E i, j \in NodePos :
          /\ ~Unresolved(locations[i])
          /\ ~Unresolved(locations[j])
          /\ data.distance_matrix[i][j] > 0
          /\ data.distance_matrix[i][j] < Sentinel

\* C5 as stated: the sentinel is returned whenever an endpoint is unresolved,
\* a 3-character identifier being unresolved when neither prefix matches.
C5_SentinelByPrefixOnly ==
    Built =>
        \A i, j \in NodePos :
            (UnresolvedByPrefixOnly(locations[i]) \/ UnresolvedByPrefixOnly(locations[j]))
                => data.distance_matrix[i][j] = Sentinel

\* C5 amended: the sentinel is returned whenever an endpoint is unresolved, a
\* 3-character identifier being unresolved when it matches no airport under
\* the 'K' prefix, under the 'C' prefix or as given.
C5_SentinelWhenUnresolved ==
    Built =>
        \A i, j \in NodePos :
            (Unresolved(locations[i]) \/ Unresolved(locations[j]))
                => data.distance_matrix[i][j] = Sentinel

\* C5 witness: a resolved node beside an unresolved 3-character one.
C5_Witness ==
    /\ Built
    /\ \E i, j \in NodePos :
          /\ ~Unresolved(locations[i])
          /\ Unresolved(locations[j])
          /\ Len(locations[j]) = 3
          /\ data.distance_matrix[i][j] = Sentinel
          /\ data.distance_matrix[i][i] = 0

\* C6: create_data_model completes for every job list and home base, with the
\* home base at index 0 of the node list and data['base'] that index.
C6_BaseIsNodeZero ==
    pc # "create_data_model" =>
        /\ err # "ValueError"
        /\ Len(locations) > 0
        /\ locations[1] = aircraft.Location
        /\ data.base = 0

\* C7: the demand function never raises, is 0 on same-node arcs and otherwise
\* the quantity of a job with exactly that origin and destination; with one
\* matching job it is that job's quantity.
C7_DemandTotal ==
    pc = "solve" =>
        \A i, j \in Nodes :
            /\ ~demand_raises(i, j)
            /\ i = j => demand_callback(i, j) = 0
            /\ i # j => \E k \in DOMAIN df(i, j) : demand_callback(i, j) = df(i, j)[k].quantity
            /\ (i # j /\ Len(df(i, j)) = 1) => demand_callback(i, j) = df(i, j)[1].quantity

\* The jobs with neither endpoint at the home base, in job order.
PairedJobs ==
    SelectSeq(jobs, LAMBDA job : job.fromIcao # aircraft.Location
                                 /\ job.toIcao # aircraft.Location)

\* C8: the pickup-delivery list holds [index(origin), index(destination)] for
\* exactly the jobs with neither endpoint at the home base, each index being
\* the position of the identifier in the final node list.
C8_PairsOfNonBaseJobs ==
    Built =>
        /\ Len(data.pickups_deliveries) = Len(PairedJobs)
        /\ \A k \in DOMAIN data.pickups_deliveries :
              LET request == data.pickups_deliveries[k]
              IN  /\ request[1] \in 0..(Len(locations) - 1)
                  /\ request[2] \in 0..(Len(locations) - 1)
                  /\ locations[request[1] + 1] = PairedJobs[k].fromIcao
                  /\ locations[request[2] + 1] = PairedJobs[k].toIcao
                  /\ locations[request[1] + 1] # aircraft.Location
                  /\ locations[request[2] + 1] # aircraft.Location

\* C8 witness: one job is paired and another, touching the base, is not.
C8_Witness ==
    /\ Built
    /\ Len(data.pickups_deliveries) > 0
    /\ Len(data.pickups_deliveries) < Len(jobs)
    /\ data.pickups_deliveries[1][1] # data.pickups_deliveries[1][2]

\* The sum of the distance-matrix entries over consecutive stops of r.
RECURSIVE ArcSum(_, _)
ArcSum(r, i) ==
    IF i = 1 THEN 0
    ELSE ArcSum(r, i - 1) + data.distance_matrix[r[i - 1] + 1][r[i] + 1]

\* C9: for every solution found, print_solution walks the route to its end and
\* reports the sum of the arc distances as the route distance, a load at each
\* stop, and the sum of the route distances as the total distance.
C9_ReportsArcSum ==
    (Solved /\ pc \in {"done", "raised"}) =>
        /\ printed # <<>>
        /\ printed.route_distance = ArcSum(solution, Len(solution))
        /\ Len(printed.plan_output) = Len(solution)
        /\ printed.total_distance = printed.route_distance

\* Destination then origin of every job, in job order.
Flat == [p \in 1..(2 * Len(jobs)) |->
            IF p % 2 = 1 THEN jobs[(p + 1) \div 2].toIcao ELSE jobs[p \div 2].fromIcao]

FirstAt(x) == CHOOSE p \in DOMAIN Flat : Flat[p] = x /\ \A q \in 1..(p - 1) : Flat[q] # x

\* C10: the node list has no duplicates, holds every job's origin and
\* destination and nothing else, in the order of first appearance when each
\* job's destination is taken before its origin.
C10_FirstAppearanceOrder ==
    pc # "create_data_model" =>
        /\ \A i, j \in NodePos : i # j => locations[i] # locations[j]
        /\ \A k \in DOMAIN jobs :
              Contains(locations, jobs[k].fromIcao) /\ Contains(locations, jobs[k].toIcao)
        /\ \A i \in NodePos : \E p \in DOMAIN Flat : Flat[p] = locations[i]
        /\ \A i, j \in NodePos : i < j => FirstAt(locations[i]) < FirstAt(locations[j])

\* C10 witness: three nodes, the first job's destination ahead of its origin,
\* and an identifier met again by a later job.
C10_Witness ==
    /\ pc # "create_data_model"
    /\ Len(locations) = 3
    /\ Len(jobs) >= 2
    /\ jobs[1].toIcao # jobs[1].fromIcao
    /\ locations[1] = jobs[1].toIcao
    /\ locations[2] = jobs[1].fromIcao
    /\ Len(Flat) > Len(locations)

====
